---- MODULE Spec2Model ----
(***************************************************************************)
(* Architectural Feedback Analyzer (src/app.py): a Streamlit script that   *)
(* is re-executed top to bottom on every page run of a browser session.    *)
(* One page run is modelled as the sequence of its statements' effects:    *)
(* model configuration, the session slot, the submit handler, the display  *)
(* block with its three downstream generations, and the footer.            *)
(*                                                                         *)
(* Texts are sequences of tokens; the two error sentinels are tokens, so   *)
(* that "sentinel in text" is a real substring test on the text.           *)
(***************************************************************************)
EXTENDS Integers, Sequences, FiniteSets

VARIABLES
    pc,                      \* position of the script in the current page run
    ai_model,                \* module global ai_model (lines 6-20)
    session_state,           \* st.session_state: present keys and the slot's value
    pressed,                 \* st.button(...) of this run (line 126)
    user_feedback_text,      \* st.text_area(...) of this run (line 120)
    analysis_text,           \* module global analysis_text (lines 130, 135)
    case_studies_output,     \* line 144
    critical_thinking_output,\* line 151
    interpretations_output,  \* line 158
    calls,                   \* get_ai_response invocations of this run, in order
    invoked,                 \* stage functions invoked in this run, in order
    page,                    \* elements rendered in this run, in order
    writes,                  \* assignments of line 131 in this run
    run_start_result,        \* session_state at the start of this run
    submits,                 \* button presses of the session so far
    seenFailures             \* failure kinds of the earlier runs of the session

vars == <<pc, ai_model, session_state, pressed, user_feedback_text, analysis_text,
          case_studies_output, critical_thinking_output, interpretations_output,
          calls, invoked, page, writes, run_start_result, submits, seenFailures>>

-----------------------------------------------------------------------------
(* Bounds *)

MaxSubmits == 3

-----------------------------------------------------------------------------
(* Python values and texts *)

None == [type |-> "NoneType", s |-> <<>>]

Str(s) == [type |-> "str", s |-> s]

Unset == [type |-> "unset", s |-> <<>>]

\* bool(v) of a str or None
Truthy(v) == v.type = "str" /\ v.s # <<>>

\* t in s, for texts
Contains(s, t) ==
    \E i \in 1..(Len(s) + 1 - Len(t)) : SubSeq(s, i, i + Len(t) - 1) = t

SentinelNotAvailable == <<"AI model not available.">>

SentinelErrorGetting == <<"Error getting AI response">>

CannotCaseStudies == <<"Cannot generate case studies without a valid AI analysis.">>

CannotPrompts == <<"Cannot generate critical thinking prompts without a valid AI analysis.">>

CannotInterpret == <<"Cannot interpret abstract concepts without a valid AI analysis.">>

NoTranscribedText == <<"No transcribed text to analyze.">>

DefaultImageInfo == <<"No specific image information provided.">>

\* texts the user can have in the text area
Feedbacks == { <<>>, <<"feedback">> }

\* what ai_model.generate_content(prompt).text can be, and what it can raise
ResponseTexts ==
    { <<>>, <<"w">>, <<"w">> \o SentinelNotAvailable, SentinelErrorGetting \o <<"w">> }

ExceptionTexts == { <<"e">> }

Outcomes ==
    [kind : {"text"}, body : ResponseTexts] \cup [kind : {"raise"}, body : ExceptionTexts]

ConfigOutcomes == {"ok", "empty_key", "exception"}

-----------------------------------------------------------------------------
(* Rendered elements *)

Element(kind, body) == [kind |-> kind, body |-> body]

NoEffect(v) == [ret |-> v, page |-> <<>>, calls |-> <<>>]

-----------------------------------------------------------------------------
(* The functions of the script *)

\* get_ai_response without the ai_model check of lines 25-27: the call on None raises
\* and the except branch of lines 31-33 answers
get_ai_response_NoModelCheck(model, prompt, o) ==
    IF model = "None" \/ o.kind = "raise"
    THEN [ret   |-> Str(SentinelErrorGetting \o <<": ">> \o <<"e">>),
          page  |-> <<Element("error", SentinelErrorGetting \o <<": ">> \o <<"e">>)>>,
          calls |-> <<[prompt |-> prompt, reached |-> (model # "None"), raised |-> TRUE,
                       ret |-> SentinelErrorGetting \o <<": ">> \o <<"e">>]>>]
    ELSE [ret   |-> Str(o.body),
          page  |-> <<>>,
          calls |-> <<[prompt |-> prompt, reached |-> TRUE, raised |-> FALSE,
                       ret |-> o.body]>>]

\* get_ai_response whose except branch returns the error string without st.error
get_ai_response_Silent(model, prompt, o) ==
    IF model = "None"
    THEN [ret   |-> Str(SentinelNotAvailable),
          page  |-> <<Element("error", <<"AI model not initialized. Cannot get response.">>)>>,
          calls |-> <<[prompt |-> prompt, reached |-> FALSE, raised |-> FALSE,
                       ret |-> SentinelNotAvailable]>>]
    ELSE IF o.kind = "text"
    THEN [ret   |-> Str(o.body),
          page  |-> <<>>,
          calls |-> <<[prompt |-> prompt, reached |-> TRUE, raised |-> FALSE,
                       ret |-> o.body]>>]
    ELSE [ret   |-> Str(SentinelErrorGetting \o <<": ">> \o o.body),
          page  |-> <<>>,
          calls |-> <<[prompt |-> prompt, reached |-> TRUE, raised |-> TRUE,
                       ret |-> SentinelErrorGetting \o <<": ">> \o o.body]>>]

\* lines 23-33
get_ai_response(model, prompt, o) ==
    IF model = "None"
    THEN [ret   |-> Str(SentinelNotAvailable),
          page  |-> <<Element("error", <<"AI model not initialized. Cannot get response.">>)>>,
          calls |-> <<[prompt |-> prompt, reached |-> FALSE, raised |-> FALSE,
                       ret |-> SentinelNotAvailable]>>]
    ELSE IF o.kind = "text"
    THEN [ret   |-> Str(o.body),
          page  |-> <<>>,
          calls |-> <<[prompt |-> prompt, reached |-> TRUE, raised |-> FALSE,
                       ret |-> o.body]>>]
    ELSE [ret   |-> Str(SentinelErrorGetting \o <<": ">> \o o.body),
          page  |-> <<Element("error", SentinelErrorGetting \o <<": ">> \o o.body)>>,
          calls |-> <<[prompt |-> prompt, reached |-> TRUE, raised |-> TRUE,
                       ret |-> SentinelErrorGetting \o <<": ">> \o o.body]>>]

\* lines 43-55
AnalysisPrompt(transcribed_text, image_info) ==
    <<"analysis:feedback">> \o transcribed_text \o <<"analysis:work">> \o image_info
        \o <<"analysis:task">>

\* lines 66-73
CaseStudiesPrompt(ai_analysis_text) ==
    <<"case_studies:analysis">> \o ai_analysis_text \o <<"case_studies:task">>

\* lines 84-89
CriticalThinkingPrompt(ai_analysis_text) ==
    <<"critical_thinking:analysis">> \o ai_analysis_text \o <<"critical_thinking:task">>

\* lines 100-105
InterpretPrompt(ai_analysis_text) ==
    <<"interpret:analysis">> \o ai_analysis_text \o <<"interpret:task">>

\* lines 36-56
analyze_feedback(model, transcribed_text, o) ==
    IF transcribed_text = <<>>
    THEN NoEffect(Str(NoTranscribedText))
    ELSE get_ai_response(model, AnalysisPrompt(transcribed_text, DefaultImageInfo), o)

\* lines 63, 81, 97: not ai_analysis_text or "AI model not available." in ai_analysis_text
InvalidAnalysis(v) == ~Truthy(v) \/ Contains(v.s, SentinelNotAvailable)

\* lines 59-74
generate_case_studies(model, v, o) ==
    IF InvalidAnalysis(v)
    THEN NoEffect(Str(CannotCaseStudies))
    ELSE get_ai_response(model, CaseStudiesPrompt(v.s), o)

\* generate_critical_thinking_prompts with the prompt of generate_case_studies
generate_critical_thinking_prompts_CaseStudyPrompt(model, v, o) ==
    IF InvalidAnalysis(v)
    THEN NoEffect(Str(CannotPrompts))
    ELSE get_ai_response(model, CaseStudiesPrompt(v.s), o)

\* lines 77-90
generate_critical_thinking_prompts(model, v, o) ==
    IF InvalidAnalysis(v)
    THEN NoEffect(Str(CannotPrompts))
    ELSE get_ai_response(model, CriticalThinkingPrompt(v.s), o)

\* lines 93-106
interpret_abstract_concepts(model, v, o) ==
    IF InvalidAnalysis(v)
    THEN NoEffect(Str(CannotInterpret))
    ELSE get_ai_response(model, InterpretPrompt(v.s), o)

\* line 139 testing the first sentinel only, as lines 63, 81 and 97 do
AnalysisFailed_OnlyNotAvailable(text) == Contains(text, SentinelNotAvailable)

\* line 139 testing the second sentinel only
AnalysisFailed_OnlyErrorGetting(text) == Contains(text, SentinelErrorGetting)

\* line 139
AnalysisFailed(text) ==
    Contains(text, SentinelNotAvailable) \/ Contains(text, SentinelErrorGetting)

\* lines 126-127 without the test of line 127
SubmitAccepted_NoTextCheck(p, text) == p

\* lines 126-127 analysing only while nothing is cached
SubmitAccepted_OnlyUncached(p, text) ==
    p /\ text # <<>> /\ ~Truthy(session_state.analysis_result)

\* lines 126-127
SubmitAccepted(p, text) == p /\ text # <<>>

-----------------------------------------------------------------------------
(* The page run *)

Init ==
    /\ pc = "idle"
    /\ ai_model = "undefined"
    /\ session_state = [keys |-> {}, analysis_result |-> None]
    /\ pressed = FALSE
    /\ user_feedback_text = <<>>
    /\ analysis_text = Unset
    /\ case_studies_output = Unset
    /\ critical_thinking_output = Unset
    /\ interpretations_output = Unset
    /\ calls = <<>>
    /\ invoked = <<>>
    /\ page = <<>>
    /\ writes = 0
    /\ run_start_result = [keys |-> {}, analysis_result |-> None]
    /\ submits = 0
    /\ seenFailures = {}

\* failure kinds that happened in the run that is ending
RunFailures ==
    (IF ai_model = "None" THEN {"credential"} ELSE {})
        \cup (IF \E i \in 1..Len(calls) : calls[i].raised THEN {"model_call"} ELSE {})
        \cup (IF pressed /\ user_feedback_text = <<>> THEN {"empty_input"} ELSE {})

\* A browser interaction starts a page run: the script's globals are fresh, the
\* session state is kept. The first run of a session is the page load.
StartRun(p, text) ==
    /\ pc \in {"idle", "done"}
    /\ pc = "idle" => (~p /\ text = <<>>)
    /\ p => submits < MaxSubmits
    /\ pc' = "configure"
    /\ ai_model' = "undefined"
    /\ pressed' = p
    /\ user_feedback_text' = text
    /\ analysis_text' = Unset
    /\ case_studies_output' = Unset
    /\ critical_thinking_output' = Unset
    /\ interpretations_output' = Unset
    /\ calls' = <<>>
    /\ invoked' = <<>>
    /\ page' = <<>>
    /\ writes' = 0
    /\ run_start_result' = session_state
    /\ submits' = IF p THEN submits + 1 ELSE submits
    /\ seenFailures' = IF pc = "done" THEN seenFailures \cup RunFailures ELSE seenFailures
    /\ UNCHANGED session_state

\* lines 6-20
Configure(outcome) ==
    /\ pc = "configure"
    /\ pc' = "layout"
    /\ ai_model' = IF outcome = "ok" THEN "GenerativeModel" ELSE "None"
    /\ page' = page \o
         (CASE outcome = "ok" ->
                 <<Element("success", <<"Google Generative AI model initialized successfully.">>)>>
            [] outcome = "empty_key" ->
                 <<Element("error", <<"Google API Key not found.">>)>>
            [] outcome = "exception" ->
                 <<Element("error", <<"Error initializing Google Generative AI model">>),
                   Element("warning", <<"Please ensure your GOOGLE_API_KEY is set correctly">>)>>)
    /\ UNCHANGED <<session_state, pressed, user_feedback_text, analysis_text,
                   case_studies_output, critical_thinking_output, interpretations_output,
                   calls, invoked, writes, run_start_result, submits, seenFailures>>

\* lines 109-124
Layout ==
    /\ pc = "layout"
    /\ pc' = "button"
    /\ session_state' =
         IF "analysis_result" \in session_state.keys
         THEN session_state
         ELSE [keys |-> {"analysis_result"}, analysis_result |-> None]
    /\ UNCHANGED <<ai_model, pressed, user_feedback_text, analysis_text,
                   case_studies_output, critical_thinking_output, interpretations_output,
                   calls, invoked, page, writes, run_start_result, submits, seenFailures>>

\* lines 126-131
SubmitHandler(o) ==
    /\ pc = "button"
    /\ pc' = "display"
    /\ IF SubmitAccepted(pressed, user_feedback_text)
       THEN LET r == analyze_feedback(ai_model, user_feedback_text, o) IN
            /\ page' = page \o <<Element("header", <<"AI Analysis and Insights">>)>> \o r.page
            /\ calls' = calls \o r.calls
            /\ invoked' = Append(invoked, "analyze_feedback")
            /\ analysis_text' = r.ret
            /\ session_state' = [session_state EXCEPT !.analysis_result = r.ret]
            /\ writes' = writes + 1
       ELSE UNCHANGED <<page, calls, invoked, analysis_text, session_state, writes>>
    /\ UNCHANGED <<ai_model, pressed, user_feedback_text,
                   case_studies_output, critical_thinking_output, interpretations_output,
                   run_start_result, submits, seenFailures>>

\* the display block forgetting the result once it has been shown
Display_ClearsSlot ==
    /\ pc = "display"
    /\ IF Truthy(session_state.analysis_result)
       THEN /\ analysis_text' = session_state.analysis_result
            /\ session_state' = [session_state EXCEPT !.analysis_result = None]
            /\ IF ~AnalysisFailed(session_state.analysis_result.s)
               THEN /\ pc' = "case_studies"
                    /\ page' = page \o
                         <<Element("subheader", <<"AI Analysis Result:">>),
                           Element("analysis", session_state.analysis_result.s),
                           Element("separator", <<>>)>>
               ELSE /\ pc' = "footer"
                    /\ page' = page \o
                         <<Element("subheader", <<"AI Analysis Result:">>),
                           Element("analysis", session_state.analysis_result.s),
                           Element("error", <<"Analysis failed, cannot generate further outputs.">>)>>
       ELSE /\ pc' = "footer"
            /\ UNCHANGED <<analysis_text, page, session_state>>
    /\ UNCHANGED <<ai_model, pressed, user_feedback_text,
                   case_studies_output, critical_thinking_output, interpretations_output,
                   calls, invoked, writes, run_start_result, submits, seenFailures>>

\* the display block nested under the button block: shown only in a submit's run
Display_OnlyWhenPressed ==
    /\ pc = "display"
    /\ IF pressed /\ Truthy(session_state.analysis_result)
       THEN /\ analysis_text' = session_state.analysis_result
            /\ IF ~AnalysisFailed(session_state.analysis_result.s)
               THEN /\ pc' = "case_studies"
                    /\ page' = page \o
                         <<Element("subheader", <<"AI Analysis Result:">>),
                           Element("analysis", session_state.analysis_result.s),
                           Element("separator", <<>>)>>
               ELSE /\ pc' = "footer"
                    /\ page' = page \o
                         <<Element("subheader", <<"AI Analysis Result:">>),
                           Element("analysis", session_state.analysis_result.s),
                           Element("error", <<"Analysis failed, cannot generate further outputs.">>)>>
       ELSE /\ pc' = "footer"
            /\ UNCHANGED <<analysis_text, page>>
    /\ UNCHANGED <<ai_model, session_state, pressed, user_feedback_text,
                   case_studies_output, critical_thinking_output, interpretations_output,
                   calls, invoked, writes, run_start_result, submits, seenFailures>>

\* lines 134-139 and 160-161
Display ==
    /\ pc = "display"
    /\ IF Truthy(session_state.analysis_result)
       THEN /\ analysis_text' = session_state.analysis_result
            /\ IF ~AnalysisFailed(session_state.analysis_result.s)
               THEN /\ pc' = "case_studies"
                    /\ page' = page \o
                         <<Element("subheader", <<"AI Analysis Result:">>),
                           Element("analysis", session_state.analysis_result.s),
                           Element("separator", <<>>)>>
               ELSE /\ pc' = "footer"
                    /\ page' = page \o
                         <<Element("subheader", <<"AI Analysis Result:">>),
                           Element("analysis", session_state.analysis_result.s),
                           Element("error", <<"Analysis failed, cannot generate further outputs.">>)>>
       ELSE /\ pc' = "footer"
            /\ UNCHANGED <<analysis_text, page>>
    /\ UNCHANGED <<ai_model, session_state, pressed, user_feedback_text,
                   case_studies_output, critical_thinking_output, interpretations_output,
                   calls, invoked, writes, run_start_result, submits, seenFailures>>

\* lines 142-147
CaseStudies(o) ==
    /\ pc = "case_studies"
    /\ pc' = "critical_thinking"
    /\ LET r == generate_case_studies(ai_model, analysis_text, o) IN
         /\ case_studies_output' = r.ret
         /\ calls' = calls \o r.calls
         /\ invoked' = Append(invoked, "generate_case_studies")
         /\ page' = page \o <<Element("subheader", <<"Illustrated Case Studies">>)>> \o r.page
                \o <<Element("case_studies", r.ret.s), Element("separator", <<>>)>>
    /\ UNCHANGED <<ai_model, session_state, pressed, user_feedback_text, analysis_text,
                   critical_thinking_output, interpretations_output,
                   writes, run_start_result, submits, seenFailures>>

\* lines 149-154
CriticalThinking(o) ==
    /\ pc = "critical_thinking"
    /\ pc' = "interpret"
    /\ LET r == generate_critical_thinking_prompts(ai_model, analysis_text, o) IN
         /\ critical_thinking_output' = r.ret
         /\ calls' = calls \o r.calls
         /\ invoked' = Append(invoked, "generate_critical_thinking_prompts")
         /\ page' = page \o <<Element("subheader", <<"Critical Thinking Prompts">>)>> \o r.page
                \o <<Element("critical_thinking", r.ret.s), Element("separator", <<>>)>>
    /\ UNCHANGED <<ai_model, session_state, pressed, user_feedback_text, analysis_text,
                   case_studies_output, interpretations_output,
                   writes, run_start_result, submits, seenFailures>>

\* lines 156-159
Interpret(o) ==
    /\ pc = "interpret"
    /\ pc' = "footer"
    /\ LET r == interpret_abstract_concepts(ai_model, analysis_text, o) IN
         /\ interpretations_output' = r.ret
         /\ calls' = calls \o r.calls
         /\ invoked' = Append(invoked, "interpret_abstract_concepts")
         /\ page' = page \o <<Element("subheader", <<"Interpretations of Abstract Concepts">>)>>
                \o r.page \o <<Element("interpretations", r.ret.s)>>
    /\ UNCHANGED <<ai_model, session_state, pressed, user_feedback_text, analysis_text,
                   case_studies_output, critical_thinking_output,
                   writes, run_start_result, submits, seenFailures>>

\* lines 164-165
Footer ==
    /\ pc = "footer"
    /\ pc' = "done"
    /\ page' = page \o <<Element("separator", <<>>),
                         Element("footer", <<"Built with Streamlit and Google Generative AI.">>)>>
    /\ UNCHANGED <<ai_model, session_state, pressed, user_feedback_text, analysis_text,
                   case_studies_output, critical_thinking_output, interpretations_output,
                   calls, invoked, writes, run_start_result, submits, seenFailures>>

Next ==
    \/ \E p \in BOOLEAN, text \in Feedbacks : StartRun(p, text)
    \/ \E outcome \in ConfigOutcomes : Configure(outcome)
    \/ Layout
    \/ \E o \in Outcomes : SubmitHandler(o)
    \/ Display
    \/ \E o \in Outcomes : CaseStudies(o)
    \/ \E o \in Outcomes : CriticalThinking(o)
    \/ \E o \in Outcomes : Interpret(o)
    \/ Footer

Spec == Init /\ [][Next]_vars

-----------------------------------------------------------------------------
(* The stage functions called on their own, with any argument *)

\* arguments a caller can pass as ai_analysis_text
AnalysisArgs ==
    {None} \cup { Str(t) : t \in ResponseTexts \cup
                     { SentinelNotAvailable, SentinelErrorGetting \o <<": ", "e">> } }

InitFn ==
    /\ pc = "fn"
    /\ ai_model \in {"None", "GenerativeModel"}
    /\ session_state = [keys |-> {}, analysis_result |-> None]
    /\ pressed = FALSE
    /\ user_feedback_text = <<>>
    /\ analysis_text = Unset
    /\ case_studies_output = Unset
    /\ critical_thinking_output = Unset
    /\ interpretations_output = Unset
    /\ calls = <<>>
    /\ invoked = <<>>
    /\ page = <<>>
    /\ writes = 0
    /\ run_start_result = [keys |-> {}, analysis_result |-> None]
    /\ submits = 0
    /\ seenFailures = {}

\* lines 59-74, one call
CallCaseStudies(v, o) ==
    /\ pc = "fn"
    /\ LET r == generate_case_studies(ai_model, v, o) IN
         /\ case_studies_output' = r.ret
         /\ calls' = r.calls
         /\ page' = r.page
    /\ analysis_text' = v
    /\ invoked' = <<"generate_case_studies">>
    /\ UNCHANGED <<pc, ai_model, session_state, pressed, user_feedback_text,
                   critical_thinking_output, interpretations_output,
                   writes, run_start_result, submits, seenFailures>>

\* lines 77-90, one call
CallCriticalThinking(v, o) ==
    /\ pc = "fn"
    /\ LET r == generate_critical_thinking_prompts(ai_model, v, o) IN
         /\ critical_thinking_output' = r.ret
         /\ calls' = r.calls
         /\ page' = r.page
    /\ analysis_text' = v
    /\ invoked' = <<"generate_critical_thinking_prompts">>
    /\ UNCHANGED <<pc, ai_model, session_state, pressed, user_feedback_text,
                   case_studies_output, interpretations_output,
                   writes, run_start_result, submits, seenFailures>>

\* lines 93-106, one call
CallInterpret(v, o) ==
    /\ pc = "fn"
    /\ LET r == interpret_abstract_concepts(ai_model, v, o) IN
         /\ interpretations_output' = r.ret
         /\ calls' = r.calls
         /\ page' = r.page
    /\ analysis_text' = v
    /\ invoked' = <<"interpret_abstract_concepts">>
    /\ UNCHANGED <<pc, ai_model, session_state, pressed, user_feedback_text,
                   case_studies_output, critical_thinking_output,
                   writes, run_start_result, submits, seenFailures>>

NextFn ==
    \/ \E v \in AnalysisArgs, o \in Outcomes : CallCaseStudies(v, o)
    \/ \E v \in AnalysisArgs, o \in Outcomes : CallCriticalThinking(v, o)
    \/ \E v \in AnalysisArgs, o \in Outcomes : CallInterpret(v, o)

SpecFn == InitFn /\ [][NextFn]_vars

-----------------------------------------------------------------------------
(* Vocabulary of the properties *)

Range(q) == { q[i] : i \in 1..Len(q) }

ErrorSentinels == { SentinelNotAvailable, SentinelErrorGetting }

\* the text contains one of the two error sentinels
ContainsErrorSentinel(text) == \E x \in ErrorSentinels : Contains(text, x)

DownstreamStages ==
    <<"generate_case_studies", "generate_critical_thinking_prompts",
      "interpret_abstract_concepts">>

FullChain == <<"analyze_feedback">> \o DownstreamStages

IsFirstStageCall(c) == Head(c.prompt) = "analysis:feedback"

FirstStageCalls == SelectSeq(calls, LAMBDA c : IsFirstStageCall(c))

DownstreamCalls == SelectSeq(calls, LAMBDA c : ~IsFirstStageCall(c))

DownstreamInvoked == SelectSeq(invoked, LAMBDA f : f # "analyze_feedback")

Shown(kind) == \E i \in 1..Len(page) : page[i].kind = kind

ShownElement(e) == \E i \in 1..Len(page) : page[i] = e

\* an error or warning is on the page
FailureMessageShown == Shown("error") \/ Shown("warning")

CachedResult == session_state.analysis_result

RunDone == pc = "done"

EmptySubmit == pressed /\ user_feedback_text = <<>>

NonEmptySubmit == pressed /\ user_feedback_text # <<>>

AnalysisFailedMessage == Element("error", <<"Analysis failed, cannot generate further outputs.">>)

\* the three downstream calls, each with the text as its input
ChainCallsOn(text) ==
    /\ Len(DownstreamCalls) = 3
    /\ DownstreamCalls[1].prompt = <<"case_studies:analysis">> \o text \o <<"case_studies:task">>
    /\ DownstreamCalls[2].prompt =
           <<"critical_thinking:analysis">> \o text \o <<"critical_thinking:task">>
    /\ DownstreamCalls[3].prompt = <<"interpret:analysis">> \o text \o <<"interpret:task">>

-----------------------------------------------------------------------------
(* C1 *)

\* C1, as stated: a run in which submit is pressed with empty feedback text makes no
\* Gateway call and displays no analysis output, whatever the earlier submits left.
C1_Original ==
    (RunDone /\ EmptySubmit) => (calls = <<>> /\ ~Shown("analysis"))

\* C1, amended: a run in which submit is pressed with empty feedback text makes no
\* first-stage call and does not write the slot; with no non-empty result cached it
\* makes no Gateway call and displays no analysis, and with one cached it displays
\* it again and, if it has no sentinel, re-issues the three downstream calls.
C1_Amended ==
    (RunDone /\ EmptySubmit) =>
        /\ "analyze_feedback" \notin Range(invoked)
        /\ FirstStageCalls = <<>>
        /\ writes = 0
        /\ CachedResult = run_start_result.analysis_result
        /\ ~Truthy(CachedResult) => (calls = <<>> /\ ~Shown("analysis"))
        /\ Truthy(CachedResult) => ShownElement(Element("analysis", CachedResult.s))
        /\ (Truthy(CachedResult) /\ ~ContainsErrorSentinel(CachedResult.s))
              => Len(calls) = 3

C1_Witness ==
    RunDone /\ EmptySubmit /\ Len(calls) = 3 /\ Shown("analysis") /\ writes = 0

-----------------------------------------------------------------------------
(* C2 *)

\* C2, as stated: when the result a submit stored contains an error sentinel, the run
\* issues no downstream Gateway call and each downstream output is its static
\* "Cannot ..." string.
C2_Original ==
    (RunDone /\ writes = 1 /\ ContainsErrorSentinel(CachedResult.s)) =>
        /\ DownstreamCalls = <<>>
        /\ case_studies_output = Str(CannotCaseStudies)
        /\ critical_thinking_output = Str(CannotPrompts)
        /\ interpretations_output = Str(CannotInterpret)

\* C2, amended: when the result a submit stored contains an error sentinel, the run
\* issues no downstream Gateway call, invokes no downstream stage and produces no
\* downstream output; it shows the one error "Analysis failed, cannot generate
\* further outputs." after the result.
C2_Amended ==
    (RunDone /\ writes = 1 /\ ContainsErrorSentinel(CachedResult.s)) =>
        /\ DownstreamCalls = <<>>
        /\ invoked = <<"analyze_feedback">>
        /\ case_studies_output = Unset
        /\ critical_thinking_output = Unset
        /\ interpretations_output = Unset
        /\ ~Shown("case_studies") /\ ~Shown("critical_thinking") /\ ~Shown("interpretations")
        /\ ShownElement(AnalysisFailedMessage)

C2_Witness ==
    /\ RunDone /\ writes = 1
    /\ CachedResult = Str(SentinelErrorGetting \o <<": ", "e">>)
    /\ ShownElement(AnalysisFailedMessage)

-----------------------------------------------------------------------------
(* C3 *)

\* the first-stage call of this run returned a response (it did not fail)
FirstStageSucceeded ==
    /\ writes = 1
    /\ Len(calls) >= 1
    /\ calls[1].reached /\ ~calls[1].raised

\* C3, as stated: when a submit yields a successful first-stage result containing
\* neither sentinel, the run invokes the three downstream stages once each, in order,
\* after the first stage.
C3_Original ==
    (RunDone /\ FirstStageSucceeded /\ ~ContainsErrorSentinel(CachedResult.s)) =>
        /\ invoked = FullChain
        /\ Len(calls) = 4

\* C3, amended: when a submit yields a successful, non-empty first-stage result
\* containing neither sentinel, the run invokes the three downstream stages once each,
\* in order, after the first stage (calls 1, 2, 3, 4 in that order).
C3_Amended ==
    (RunDone /\ FirstStageSucceeded /\ CachedResult.s # <<>>
       /\ ~ContainsErrorSentinel(CachedResult.s)) =>
        /\ invoked = FullChain
        /\ Len(calls) = 4
        /\ IsFirstStageCall(calls[1])
        /\ Head(calls[2].prompt) = "case_studies:analysis"
        /\ Head(calls[3].prompt) = "critical_thinking:analysis"
        /\ Head(calls[4].prompt) = "interpret:analysis"

C3_Witness ==
    RunDone /\ FirstStageSucceeded /\ invoked = FullChain /\ Len(calls) = 4

-----------------------------------------------------------------------------
(* C4 *)

StageName(k) == FullChain[k]

StageInvoked(k) == StageName(k) \in Range(invoked)

StageOutput(k) ==
    CASE k = 1 -> analysis_text
      [] k = 2 -> case_studies_output
      [] k = 3 -> critical_thinking_output
      [] k = 4 -> interpretations_output

\* C4, as stated: for every stage k in 1..3, if stage k's output contains an error
\* sentinel, no stage after k is invoked in that run.
C4_Original ==
    RunDone =>
        \A k \in 1..3 :
            (StageInvoked(k) /\ ContainsErrorSentinel(StageOutput(k).s)) =>
                \A j \in (k + 1)..4 : ~StageInvoked(j)

\* C4, amended: a failure of the first stage halts the remaining stages: if the
\* first-stage result contains an error sentinel, no downstream stage is invoked and
\* no Gateway call is issued for one. A failure of stage 2 or 3 halts nothing: once
\* stage 2 is invoked, stages 3 and 4 are invoked too.
C4_Amended ==
    RunDone =>
        /\ ContainsErrorSentinel(CachedResult.s) =>
              (DownstreamInvoked = <<>> /\ DownstreamCalls = <<>>)
        /\ StageInvoked(2) => DownstreamInvoked = DownstreamStages

C4_Witness ==
    /\ RunDone
    /\ ContainsErrorSentinel(case_studies_output.s)
    /\ ContainsErrorSentinel(critical_thinking_output.s)
    /\ StageInvoked(4)

-----------------------------------------------------------------------------
(* C5 *)

GatewayUnavailable ==
    ai_model = "None" \/ (Len(calls) >= 1 /\ calls[1].raised)

\* C5, as stated: with the Gateway unavailable (no model, or its call fails), a
\* non-empty submit stores exactly "AI model not available." and issues no downstream
\* call.
C5_Original ==
    (RunDone /\ NonEmptySubmit /\ GatewayUnavailable) =>
        /\ CachedResult = Str(SentinelNotAvailable)
        /\ DownstreamCalls = <<>>

\* C5, amended: with no model, a non-empty submit stores exactly "AI model not
\* available."; with a model whose call fails, it stores "Error getting AI response: "
\* followed by the exception's text; either way no downstream call is issued.
C5_Amended ==
    (RunDone /\ NonEmptySubmit /\ GatewayUnavailable) =>
        /\ ai_model = "None" => CachedResult = Str(SentinelNotAvailable)
        /\ ai_model # "None" =>
              \E e \in ExceptionTexts :
                  CachedResult = Str(SentinelErrorGetting \o <<": ">> \o e)
        /\ DownstreamCalls = <<>>
        /\ DownstreamInvoked = <<>>

C5_Witness ==
    /\ RunDone /\ NonEmptySubmit /\ ai_model = "None"
    /\ CachedResult = Str(SentinelNotAvailable)
    /\ Len(calls) = 1

-----------------------------------------------------------------------------
(* C6 *)

Resubmit == pressed /\ submits >= 2

\* C6, as stated: every re-submit replaces the cached result with the new first-stage
\* output and runs all three downstream stages in that run.
C6_Original ==
    (RunDone /\ Resubmit) =>
        /\ writes = 1
        /\ CachedResult = analysis_text
        /\ DownstreamInvoked = DownstreamStages

\* C6, amended: every re-submit with non-empty text replaces the cached result with
\* the new first-stage output, whatever was cached; all three downstream stages run
\* in that run exactly when the new result is non-empty and has no sentinel, and none
\* runs otherwise. A re-submit with empty text leaves the cached result as it was.
C6_Amended ==
    (RunDone /\ Resubmit) =>
        /\ user_feedback_text # <<>> =>
              /\ writes = 1
              /\ Len(calls) >= 1
              /\ IsFirstStageCall(calls[1])
              /\ CachedResult = Str(calls[1].ret)
              /\ IF CachedResult.s # <<>> /\ ~ContainsErrorSentinel(CachedResult.s)
                 THEN DownstreamInvoked = DownstreamStages /\ ChainCallsOn(CachedResult.s)
                 ELSE DownstreamInvoked = <<>>
        /\ user_feedback_text = <<>> =>
              (writes = 0 /\ CachedResult = run_start_result.analysis_result)

C6_Witness ==
    /\ RunDone /\ Resubmit /\ user_feedback_text # <<>>
    /\ Truthy(run_start_result.analysis_result)
    /\ ~ContainsErrorSentinel(run_start_result.analysis_result.s)
    /\ CachedResult # run_start_result.analysis_result
    /\ DownstreamInvoked = <<>>

-----------------------------------------------------------------------------
(* C7 *)

CredentialFailure == ai_model = "None"

FirstStageCallFailure == NonEmptySubmit /\ Len(calls) >= 1 /\ calls[1].raised

\* C7, as stated: a missing credential, a failed model call and an empty input on
\* submit are handled alike: the run shows a message and makes none of the dependent
\* Gateway calls; a later non-empty submit is still processed.
C7_Original ==
    RunDone =>
        /\ CredentialFailure =>
              (FailureMessageShown /\ \A i \in 1..Len(calls) : ~calls[i].reached)
        /\ FirstStageCallFailure => (FailureMessageShown /\ DownstreamCalls = <<>>)
        /\ EmptySubmit => (FailureMessageShown /\ calls = <<>>)
        /\ NonEmptySubmit => Len(FirstStageCalls) = 1

\* C7, amended: a missing credential and a failed model call each show an error: with
\* no credential no call reaches the model, and a failed first-stage call skips the
\* downstream stages. An empty input on submit shows no message of its own: it skips
\* the first stage and leaves the slot alone, and the display block still runs on the
\* cached result. After any of these a non-empty submit is still processed.
C7_Amended ==
    RunDone =>
        /\ CredentialFailure =>
              (Shown("error") /\ \A i \in 1..Len(calls) : ~calls[i].reached)
        /\ (\E i \in 1..Len(calls) : calls[i].raised) =>
              \E e \in ExceptionTexts :
                  ShownElement(Element("error", SentinelErrorGetting \o <<": ">> \o e))
        /\ FirstStageCallFailure =>
              (DownstreamInvoked = <<>> /\ DownstreamCalls = <<>>)
        /\ EmptySubmit =>
              /\ "analyze_feedback" \notin Range(invoked)
              /\ writes = 0
              /\ (~CredentialFailure /\ ~Truthy(CachedResult)) => ~FailureMessageShown
              /\ Truthy(CachedResult) => Shown("analysis")
        /\ NonEmptySubmit =>
              /\ Head(invoked) = "analyze_feedback"
              /\ Len(FirstStageCalls) = 1
              /\ writes = 1

C7_Witness ==
    /\ RunDone /\ NonEmptySubmit
    /\ seenFailures = {"credential", "model_call", "empty_input"}
    /\ invoked = FullChain
    /\ Len(calls) = 4

-----------------------------------------------------------------------------
(* C8 *)

\* C8, as stated: the slot is written once per submit action; a run without a button
\* press leaves it unchanged, and no downstream stage writes it.
C8_Original ==
    /\ (RunDone /\ pressed) => writes = 1
    /\ (RunDone /\ ~pressed) => CachedResult = run_start_result.analysis_result
    /\ (RunDone /\ writes = 1) => CachedResult = analysis_text

AfterButton ==
    pc \in {"display", "case_studies", "critical_thinking", "interpret", "footer", "done"}

C8_State ==
    /\ writes <= 1
    /\ AfterButton => (writes = 1 <=> NonEmptySubmit)
    /\ (pc \notin {"idle", "fn"} /\ ~NonEmptySubmit) =>
          CachedResult = run_start_result.analysis_result

C8_Step ==
    (CachedResult' # CachedResult) =>
        (pc = "button" /\ pc' = "display" /\ NonEmptySubmit /\ writes' = writes + 1)

\* C8, amended: the slot is written exactly once per submit with non-empty text and
\* not at all by a submit with empty text; its value changes only in the submit
\* handler of such a submit: every run without a button press leaves it unchanged,
\* and neither the display block nor a downstream stage writes it.
C8_Amended == [](C8_State) /\ [][C8_Step]_vars

C8_Witness ==
    /\ RunDone /\ ~pressed
    /\ Truthy(CachedResult)
    /\ CachedResult = run_start_result.analysis_result
    /\ DownstreamInvoked = DownstreamStages
    /\ writes = 0

-----------------------------------------------------------------------------
(* C9 *)

LastOutput ==
    CASE invoked = <<"generate_case_studies">> -> case_studies_output
      [] invoked = <<"generate_critical_thinking_prompts">> -> critical_thinking_output
      [] invoked = <<"interpret_abstract_concepts">> -> interpretations_output

CannotMessage ==
    CASE invoked = <<"generate_case_studies">> -> CannotCaseStudies
      [] invoked = <<"generate_critical_thinking_prompts">> -> CannotPrompts
      [] invoked = <<"interpret_abstract_concepts">> -> CannotInterpret

\* C9: each downstream stage function, called with a text containing either error
\* sentinel, returns its static "Cannot ..." message and makes no Gateway call; called
\* with a non-empty text containing neither, it makes exactly one Gateway call.
C9_ShortCircuit ==
    (pc = "fn" /\ invoked # <<>> /\ analysis_text.type = "str") =>
        /\ ContainsErrorSentinel(analysis_text.s) =>
              (LastOutput = Str(CannotMessage) /\ calls = <<>>)
        /\ (analysis_text.s # <<>> /\ ~ContainsErrorSentinel(analysis_text.s)) =>
              Len(calls) = 1

-----------------------------------------------------------------------------
(* C10 *)

\* C10: the downstream chain is driven by the cached result, not by the submit. In
\* every run in which the slot holds a non-empty string with neither sentinel at the
\* display step, exactly three downstream Gateway calls are issued, each with that
\* string as input, pressed or not; the first-stage Gateway call is issued in a run
\* if and only if the button was pressed with non-empty text.
C10_ChainDrivenByCache ==
    RunDone =>
        /\ (Truthy(CachedResult) /\ ~ContainsErrorSentinel(CachedResult.s)) =>
              ChainCallsOn(CachedResult.s)
        /\ Len(FirstStageCalls) <= 1
        /\ Len(FirstStageCalls) = 1 <=> NonEmptySubmit

C10_Witness ==
    /\ RunDone /\ ~pressed
    /\ Truthy(CachedResult)
    /\ ChainCallsOn(CachedResult.s)
    /\ FirstStageCalls = <<>>

====
